---- MODULE Spec2Model ----
(***************************************************************************)
(* windpowerlib/power_curves.py: smooth_power_curve (gaussian smoothing of *)
(* a power curve with tail extension to 40 m/s) and                        *)
(* wake_losses_to_power_curve (constant or wind-speed dependent farm       *)
(* efficiency applied to a power curve).                                   *)
(*                                                                         *)
(* One behaviour is one call of one of the two functions.  Init draws the  *)
(* arguments; every action is one statement group of the function body.    *)
(* Floats are modelled as exact rationals <<n, d>> (d > 0, lowest terms),  *)
(* NaN as <<0, 0>>.  The gaussian density cannot be evaluated exactly, so  *)
(* the smoothed values are carried as IEEE-754 value classes               *)
(* (nan, -inf, negative, zero, positive, +inf) computed operation by       *)
(* operation as numpy computes them.                                       *)
(***************************************************************************)
EXTENDS Integers, Sequences, FiniteSets, TLC

VARIABLES
    fn,        \* which function is called: "smooth" or "wake"
    pc,        \* position in the function body; "done" (returned), "raised"
    args,      \* the argument values at call time (never changes)
    heap,      \* the Series objects (their values): the caller's two and
               \*   the call's own
    labels,    \* the index labels of the Series objects
    sortsUnion,\* wake: whether the installed pandas sorts the union index
               \*   pd.concat(axis=1) builds when it is given no sort argument
    wsRef,     \* object the local name power_curve_wind_speeds is bound to
    pvRef,     \* object the local name power_curve_values is bound to
    method,    \* standard_deviation_method / wake_losses_method
    kwargs,    \* smooth: [has |-> BOOLEAN, ti |-> rational]
    interned,  \* smooth: whether `standard_deviation_method is 'Staffell'`
               \*   is True when the method equals 'Staffell'
    block_width,
    nsd,       \* normalized_standard_deviation: [bound, val]
    step,      \* smooth: step of power curve wind speeds (line 80)
    smoothed,  \* smoothed_power_curve_values
    efficiency,\* wake: the caller's wind_farm_efficiency object
    frame,     \* wake: power_curve_df, rows <<wind_speed, power>>
    df,        \* wake: the aligned frame, rows [ws, power, eff, filled, reduced]
    error,     \* the exception raised: [type, msg]
    result     \* the returned DataFrame: rows <<wind_speed, power>>

vars == <<fn, pc, args, heap, labels, sortsUnion, wsRef, pvRef, method, kwargs, interned,
          block_width, nsd, step, smoothed, efficiency, frame,
          df, error, result>>

---------------------------------------------------------------------------
(* Bounds of the model *)

\* longest power curve passed to smooth_power_curve
MaxLen == 7
\* appends after which the model stops following a tail extension that
\* never ends
MaxAppend == 6

(* Program constants *)

\* `while (power_curve_wind_speeds.values[-1] < 40.0)`
Forty == 40
\* iloc[-6]: the step estimator needs six samples
MinLen == 6
\* np.arange(-15.0, 15.0 + block_width, block_width)
HalfWindow == 15

---------------------------------------------------------------------------
(* Exact rationals standing for floats *)

NaN == <<0, 0>>

IsNaN(r) == r[2] = 0

Abs(i) == IF i < 0 THEN -i ELSE i

RECURSIVE Gcd(_, _)
Gcd(a, b) == IF b = 0 THEN a ELSE Gcd(b, a % b)

Norm(n, d) ==
    IF d = 0 THEN NaN
    ELSE LET s == IF d < 0 THEN -1 ELSE 1
             g == Gcd(Abs(n), Abs(d))
         IN  <<(s * n) \div g, (s * d) \div g>>

R(i) == <<i, 1>>

RMul(a, b) == IF IsNaN(a) \/ IsNaN(b) THEN NaN ELSE Norm(a[1] * b[1], a[2] * b[2])

RAdd(a, b) ==
    IF IsNaN(a) \/ IsNaN(b) THEN NaN
    ELSE Norm(a[1] * b[2] + b[1] * a[2], a[2] * b[2])

RSub(a, b) == RAdd(a, RMul(R(-1), b))

\* division by an exact zero does not occur where this is used
RDiv(a, b) ==
    IF IsNaN(a) \/ IsNaN(b) THEN NaN ELSE Norm(a[1] * b[2], a[2] * b[1])

Last(s) == s[Len(s)]

---------------------------------------------------------------------------
(* IEEE-754 value classes, for the values the gaussian density produces *)

Cls(r) ==
    IF IsNaN(r) THEN "nan"
    ELSE IF r[1] = 0 THEN "zero"
    ELSE IF r[1] > 0 THEN "pos" ELSE "neg"

CIsNeg(a) == a \in {"neg", "ninf"}

CIsInf(a) == a \in {"inf", "ninf"}

CSigned(negative, magnitude) ==
    IF magnitude = "zero" THEN "zero"
    ELSE IF magnitude = "inf" THEN (IF negative THEN "ninf" ELSE "inf")
    ELSE IF negative THEN "neg" ELSE "pos"

CNeg(a) ==
    IF a \in {"nan", "zero"} THEN a ELSE CSigned(~CIsNeg(a), IF CIsInf(a) THEN "inf" ELSE "pos")

\* a * b: nan propagates, 0 * inf is nan
CMul(a, b) ==
    IF a = "nan" \/ b = "nan" THEN "nan"
    ELSE IF (a = "zero" /\ CIsInf(b)) \/ (b = "zero" /\ CIsInf(a)) THEN "nan"
    ELSE IF a = "zero" \/ b = "zero" THEN "zero"
    ELSE CSigned(CIsNeg(a) # CIsNeg(b),
                 IF CIsInf(a) \/ CIsInf(b) THEN "inf" ELSE "pos")

\* a / b in numpy float64: x / 0 is +-inf (a warning, no exception),
\* 0 / 0 and inf / inf are nan.  A zero divisor here is +0.0.
CDiv(a, b) ==
    IF a = "nan" \/ b = "nan" THEN "nan"
    ELSE IF a = "zero" /\ b = "zero" THEN "nan"
    ELSE IF CIsInf(a) /\ CIsInf(b) THEN "nan"
    ELSE IF b = "zero" THEN CSigned(CIsNeg(a), "inf")
    ELSE IF CIsInf(b) \/ a = "zero" THEN "zero"
    ELSE CSigned(CIsNeg(a) # CIsNeg(b), IF CIsInf(a) THEN "inf" ELSE "pos")

\* np.exp: exp(-inf) = 0, exp(x) > 0 for finite x (an underflow to 0.0 of
\* exp(x) for a very negative x is also not a nan and is not distinguished)
CExp(a) ==
    CASE a = "nan" -> "nan"
      [] a = "ninf" -> "zero"
      [] a = "inf" -> "inf"
      [] a \in {"neg", "zero", "pos"} -> "pos"

\* a + b for the operands a sum of non-negative terms meets
CAdd(a, b) ==
    CASE a = "nan" \/ b = "nan" -> "nan"
      [] a = "inf" /\ b \in {"zero", "pos", "inf"} -> "inf"
      [] b = "inf" /\ a \in {"zero", "pos"} -> "inf"
      [] a = "zero" /\ b \in {"zero", "pos"} -> b
      [] a = "pos" /\ b \in {"zero", "pos"} -> "pos"

\* tools.gaussian_distribution(function_variable, standard_deviation, mean):
\*   1 / (standard_deviation * sqrt(2 pi)) *
\*   exp(-(function_variable - mean)**2 / (2 * standard_deviation**2))
gaussian_distribution(function_variable, standard_deviation, mean) ==
    LET sd == Cls(standard_deviation)
        dev == RSub(function_variable, mean)
    IN  CMul(CDiv("pos", CMul(sd, "pos")),
             CExp(CDiv(CNeg(Cls(RMul(dev, dev))),
                       CMul("pos", CMul(sd, sd)))))

---------------------------------------------------------------------------
(* smooth_power_curve: pure parts *)

\* default of the parameter mean_gauss
mean_gauss == 0

\* np.interp(x, xp, fp, left=0, right=0) for increasing xp: the segment is
\* the last j with xp[j] <= x; at a node, and at the last node, fp[j]
Interp(x, xp, fp) ==
    IF Len(xp) = 0 THEN NaN
    ELSE IF x > Last(xp) THEN R(0)
    ELSE IF x < xp[1] THEN R(0)
    ELSE LET j == CHOOSE k \in 1..Len(xp) :
                    /\ xp[k] <= x
                    /\ \A m \in 1..Len(xp) : xp[m] <= x => m <= k
         IN  IF j = Len(xp) \/ xp[j] = x THEN R(fp[j])
             ELSE RAdd(RMul(RDiv(R(fp[j + 1] - fp[j]), R(xp[j + 1] - xp[j])),
                            R(x - xp[j])),
                       R(fp[j]))

\* len(np.arange(-15.0, 15.0 + block_width, block_width)):
\* ceil((stop - start) / step)
ArangeLen(bw) == (2 * HalfWindow + bw + bw - 1) \div bw

\* wind_speeds_block: the offsets -15, -15 + bw, ... added to the wind speed
WindSpeedsBlock(v, bw) == [k \in 1..ArangeLen(bw) |-> v - HalfWindow + (k - 1) * bw]

\* lines 94-97: v * n + 0.6 on the Staffell branch, v * n otherwise
StandardDeviation(v, isStaffell, n) ==
    IF isStaffell THEN RAdd(RMul(R(v), n), <<3, 5>>) ELSE RMul(R(v), n)

RECURSIVE SumTerms(_, _, _, _, _, _)
\* sum(block_width * np.interp(..) * gaussian_distribution(..) for ..),
\* starting from 0 and adding the terms in window order
SumTerms(k, block, v, sd, xp, fp) ==
    IF k = 0 THEN "zero"
    ELSE CAdd(SumTerms(k - 1, block, v, sd, xp, fp),
              CMul(CMul("pos", Cls(Interp(block[k], xp, fp))),
                   gaussian_distribution(R(v - block[k]), sd, R(mean_gauss))))

SmoothedValue(v, bw, sd, xp, fp) ==
    LET block == WindSpeedsBlock(v, bw)
    IN  SumTerms(Len(block), block, v, sd, xp, fp)

\* line 108 without the nan test: the value appended as it is
AppendedValueUnchecked(smoothed_value) == smoothed_value

\* line 108: 0 if np.isnan(smoothed_value) else smoothed_value
AppendedValue(smoothed_value) ==
    IF smoothed_value = "nan" THEN "zero" ELSE smoothed_value

\* line 82 with <= in place of <
LoopConditionInclusive(ws) == Last(ws) <= Forty

\* line 82: power_curve_wind_speeds.values[-1] < 40.0
LoopCondition(ws) == Last(ws) < Forty

\* Series.append if it grew the receiver in place
SeriesAppendInPlace(h, ref, fresh, x) ==
    [heap |-> [h EXCEPT ![ref] = Append(h[ref], x)], ref |-> ref]

\* Series.append: a new Series holding the receiver's values and x; the name
\* is rebound to it and the receiver is left as it was
SeriesAppend(h, ref, fresh, x) ==
    [heap |-> [h EXCEPT ![fresh] = Append(h[ref], x)], ref |-> fresh]

---------------------------------------------------------------------------
(* wake_losses_to_power_curve: pure parts *)

\* line 172: power_curve_values * wind_farm_efficiency
ScaleValues(values, e) == [i \in 1..Len(values) |-> RMul(R(values[i]), e)]

\* lines 163-167: pd.DataFrame([list(wind speeds), list(values)]).transpose()
MakeFrame(ws, values) == [i \in 1..Len(ws) |-> <<ws[i], values[i]>>]

\* the index a frame or Series built from a list of n values gets: 0 .. n-1
RangeIndex(n) == [i \in 1..n |-> i - 1]

\* line 172: power_curve_df['power'] = <Series>.  pandas aligns the Series
\* on the frame's index: a row gets the value that carries the row's label,
\* NaN where no value carries it
SetPowerColumn(rows, values, value_labels) ==
    LET index == RangeIndex(Len(rows))
    IN  [i \in 1..Len(rows) |->
            <<rows[i][1],
              IF \E j \in 1..Len(values) : value_labels[j] = index[i]
              THEN values[CHOOSE j \in 1..Len(values) : value_labels[j] = index[i]]
              ELSE NaN>>]

WsOf(rows) == [i \in 1..Len(rows) |-> rows[i][1]]

SetOf(seq) == {seq[i] : i \in 1..Len(seq)}

RECURSIVE SortedSeq(_)
\* the members of a set of numbers in ascending order
SortedSeq(S) ==
    IF S = {} THEN <<>>
    ELSE LET m == CHOOSE x \in S : \A y \in S : x <= y
         IN  <<m>> \o SortedSeq(S \ {m})

\* the value a frame indexed by wind speed holds at w, NaN where w is absent
ValueAt(rows, w) ==
    IF \E i \in 1..Len(rows) : rows[i][1] = w
    THEN (CHOOSE r \in {rows[i] : i \in 1..Len(rows)} : r[1] = w)[2]
    ELSE NaN

\* the members of seq that are not in S, in the order of seq
RECURSIVE Without(_, _)
Without(seq, S) ==
    IF seq = <<>> THEN <<>>
    ELSE (IF Head(seq) \in S THEN <<>> ELSE <<Head(seq)>>) \o Without(Tail(seq), S)

\* lines 179-180: pd.concat([.set_index('wind_speed'), .set_index('wind_speed')],
\* axis=1): the outer join on the union of the two wind speed indexes.  The
\* call passes no sort argument, so the order of the union is the installed
\* pandas' default: sorted, or the power curve's wind speeds followed by the
\* wind speeds only the efficiency curve has (order of appearance)
ConcatFrames(power_rows, eff_rows, sorted) ==
    LET index == IF sorted
                 THEN SortedSeq(SetOf(WsOf(power_rows)) \cup SetOf(WsOf(eff_rows)))
                 ELSE WsOf(power_rows) \o Without(WsOf(eff_rows), SetOf(WsOf(power_rows)))
    IN  [p \in 1..Len(index) |->
            [ws |-> index[p],
             power |-> ValueAt(power_rows, index[p]),
             efficiency |-> ValueAt(eff_rows, index[p]),
             filled |-> NaN,
             reduced |-> NaN]]

\* the rows with a defined efficiency
Valid(rows) == {p \in 1..Len(rows) : ~IsNaN(rows[p].efficiency)}

\* np.interp(x, xp, fp) over the defined efficiencies sorted by wind speed
\* (pandas sorts them before the call): the efficiency of the lowest wind
\* speed at and below it, of the highest at and above it, and between two
\* neighbours slope * (x - xa) + ya
InterpByWindSpeed(rows, p) ==
    LET valid == Valid(rows)
        x == rows[p].ws
        lo == CHOOSE q \in valid : \A t \in valid : rows[q].ws <= rows[t].ws
        hi == CHOOSE q \in valid : \A t \in valid : rows[q].ws >= rows[t].ws
    IN  IF x <= rows[lo].ws THEN rows[lo].efficiency
        ELSE IF x >= rows[hi].ws THEN rows[hi].efficiency
        ELSE LET a == CHOOSE q \in valid :
                          /\ rows[q].ws < x
                          /\ \A t \in valid : rows[t].ws < x => rows[t].ws <= rows[q].ws
                 b == CHOOSE q \in valid :
                          /\ rows[q].ws > x
                          /\ \A t \in valid : rows[t].ws > x => rows[t].ws >= rows[q].ws
             IN  RAdd(RMul(RDiv(RSub(rows[b].efficiency, rows[a].efficiency),
                                R(rows[b].ws - rows[a].ws)),
                           R(x - rows[a].ws)),
                      rows[a].efficiency)

\* the interpolation if it went by the rows' positions (method='linear')
InterpolateLinear(rows) ==
    LET valid == Valid(rows)
    IN  [p \in 1..Len(rows) |->
            IF p \in valid THEN rows[p].efficiency
            ELSE IF \A q \in valid : q > p THEN NaN
            ELSE LET a == CHOOSE q \in valid : q < p /\ \A t \in valid : t < p => t <= q
                 IN  IF \A q \in valid : q < p THEN rows[a].efficiency
                     ELSE LET b == CHOOSE q \in valid :
                                       q > p /\ \A t \in valid : t > p => t >= q
                          IN  RAdd(RMul(RDiv(RSub(rows[b].efficiency, rows[a].efficiency),
                                             R(b - a)),
                                        R(p - a)),
                                   rows[a].efficiency)]

\* the interpolation if the rows after the last defined value were left
\* undefined (limit_area='inside')
InterpolateInside(rows) ==
    LET valid == Valid(rows)
    IN  [p \in 1..Len(rows) |->
            IF p \in valid THEN rows[p].efficiency
            ELSE IF (\A q \in valid : q > p) \/ (\A q \in valid : q < p) THEN NaN
            ELSE InterpByWindSpeed(rows, p)]

\* line 183: df['efficiency'].interpolate(method='index').  pandas fills the
\* missing values with np.interp over the index values (wind speeds) and then
\* puts NaN back into the rows that stand before the first defined value
\* (limit_direction='forward'); the rows that stand after the last defined
\* value keep what np.interp gave them
InterpolateIndex(rows) ==
    LET valid == Valid(rows)
    IN  [p \in 1..Len(rows) |->
            IF p \in valid THEN rows[p].efficiency
            ELSE IF \A q \in valid : q > p THEN NaN
            ELSE InterpByWindSpeed(rows, p)]

\* lines 183-184: df['reduced_power'] = df['power'] * (interpolated efficiency)
ReducedPower(rows) ==
    LET fill == InterpolateIndex(rows)
    IN  [p \in 1..Len(rows) |->
            [rows[p] EXCEPT !.filled = fill[p],
                            !.reduced = RMul(rows[p].power, fill[p])]]

RECURSIVE DropNa(_)
\* lines 185-188: reduced_power.dropna() as rows <<wind_speed, power>>
DropNa(rows) ==
    IF rows = <<>> THEN <<>>
    ELSE (IF IsNaN(Head(rows).reduced) THEN <<>>
          ELSE << <<Head(rows).ws, Head(rows).reduced>> >>) \o DropNa(Tail(rows))

\* (the messages are sequences of their pieces, written without the grave
\* accents the source puts around parameter names)

\* the message if the method were left out of it
UnknownMethodMessageUnformatted(m) ==
    <<"wake_losses_method is ", "{0}", " but should be None, ",
      "'", "constant_efficiency", "'", " or ", "'", "wind_efficiency_curve", "'">>

\* lines 190-193: the message, "... is {0} but should be None, ...".format(m)
UnknownMethodMessage(m) ==
    <<"wake_losses_method is ", m, " but should be None, ",
      "'", "constant_efficiency", "'", " or ", "'", "wind_efficiency_curve", "'">>

\* lines 170-171 and 176-178: the '{0}' of these messages is never formatted
TypeMessage(expected) ==
    <<"'wind_farm_efficiency' must be ", expected,
      " if wake_losses_method is ", "'", "{0}", "'">>

---------------------------------------------------------------------------
(* The arguments a call is made with *)

NoError == [type |-> "none", msg |-> <<>>]

Unbound == [bound |-> FALSE, val |-> NaN]

NoKwargs == [has |-> FALSE, ti |-> NaN]

\* smooth_power_curve: power curves of MinLen - 1 .. MaxLen samples, first
\* wind speed f, spacing g, and spacing d between the 6th and the 5th sample
\* from the end (the pair line 80 reads)
Firsts == {0, 4}

Gaps == {6, 10}

TailSteps == {-2, 0, 3, 8}

SmoothWindSpeeds(n, f, g, d) ==
    [k \in 1..n |->
        IF n >= MinLen /\ k > n - MinLen + 1 THEN f + d + g * (k - 2)
        ELSE f + g * (k - 1)]

\* np.interp needs increasing wind speeds; a curve whose tail spacing is not
\* positive is passed only where line 82 enters the loop
SmoothCurves ==
    {c \in {SmoothWindSpeeds(n, f, g, d) :
                n \in (MinLen - 1)..MaxLen, f \in Firsts, g \in Gaps, d \in TailSteps} :
        \/ \A k \in 1..(Len(c) - 1) : c[k] < c[k + 1]
        \/ Last(c) < Forty}

PowerShapes == {"ramp", "flat"}

PowerValues(n, shape) == [k \in 1..n |-> IF shape = "ramp" THEN 100 * (k - 1) ELSE 100]

BlockWidths == {4, 5}

SmoothMethods == {"turbulence_intensity", "Norgaard", "Staffell"}

KwargsFor(m) ==
    IF m = "turbulence_intensity"
    THEN {NoKwargs, [has |-> TRUE, ti |-> <<0, 1>>], [has |-> TRUE, ti |-> <<1, 10>>]}
    ELSE {NoKwargs}

\* `x is 'Staffell'` compares identities: for an equal string it is True or
\* False depending on whether the caller's string is the interned literal
InternedFor(m) == IF m = "Staffell" THEN BOOLEAN ELSE {FALSE}

\* wake_losses_to_power_curve: increasing power curves and efficiency curves
WakeWindSpeeds == {3, 4, 5, 9}

EffWindSpeeds == {3, 4, 7, 9}

EffValues == {<<1, 2>>, <<1, 1>>}

WakeCurves == {SortedSeq(S) : S \in (SUBSET WakeWindSpeeds) \ {{}}}

EffCurves ==
    UNION {{[i \in 1..Len(SortedSeq(S)) |-> <<SortedSeq(S)[i], f[SortedSeq(S)[i]]>>] :
                f \in [S -> EffValues]} : S \in (SUBSET EffWindSpeeds) \ {{}}}

Efficiencies ==
    {[kind |-> "float", value |-> v, curve |-> <<>>] : v \in {<<1, 2>>, <<9, 10>>}}
    \cup {[kind |-> "int", value |-> <<1, 1>>, curve |-> <<>>],
          [kind |-> "NoneType", value |-> NaN, curve |-> <<>>]}
    \cup {[kind |-> k, value |-> NaN, curve |-> c] :
              k \in {"dict", "DataFrame"}, c \in EffCurves}

\* None is written "None", as str.format writes it
WakeMethods == {"constant_efficiency", "wind_efficiency_curve", "bogus", "None"}

NoEfficiency == [kind |-> "NoneType", value |-> NaN, curve |-> <<>>]

\* the first index label of the caller's power_curve_values: 0 for a Series
\* built from a list, 1 for one cut out of a longer Series.  The labels are
\* read where a Series is appended to (line 87) or set as a column (line 172)
PvIndexStarts(f, m, e) ==
    IF f = "smooth" \/ (m = "constant_efficiency" /\ e.kind = "float")
    THEN {0, 1} ELSE {0}

\* the order pd.concat gives the union index is read by lines 179-188 only
SortsUnionFor(m, e) ==
    IF m = "wind_efficiency_curve" /\ e.kind = "DataFrame" THEN BOOLEAN ELSE {TRUE}

\* the Series objects of a call made with wind speeds c, power values v and
\* first power label s
InitialHeap(c, v) ==
    [o \in {"callerWs", "callerPv", "ownWs", "ownPv"} |->
        CASE o = "callerWs" -> c
          [] o = "callerPv" -> v
          [] OTHER -> <<>>]

InitialLabels(c, v, s) ==
    [o \in {"callerWs", "callerPv", "ownWs", "ownPv"} |->
        CASE o = "callerWs" -> RangeIndex(Len(c))
          [] o = "callerPv" -> [i \in 1..Len(v) |-> s + i - 1]
          [] OTHER -> <<>>]

---------------------------------------------------------------------------
(* The state machine *)

InitSmooth ==
    /\ fn = "smooth"
    /\ pc = "select_sd"
    /\ method \in SmoothMethods
    /\ kwargs \in KwargsFor(method)
    /\ interned \in InternedFor(method)
    /\ block_width \in BlockWidths
    /\ efficiency = NoEfficiency
    /\ sortsUnion = TRUE
    /\ \E c \in SmoothCurves, shape \in PowerShapes,
          s \in PvIndexStarts(fn, method, efficiency) :
          /\ heap = InitialHeap(c, PowerValues(Len(c), shape))
          /\ labels = InitialLabels(c, heap["callerPv"], s)

InitWake ==
    /\ fn = "wake"
    /\ pc = "make_frame"
    /\ method \in WakeMethods
    /\ efficiency \in Efficiencies
    /\ sortsUnion \in SortsUnionFor(method, efficiency)
    /\ \E c \in WakeCurves, shape \in PowerShapes,
          s \in PvIndexStarts(fn, method, efficiency) :
          /\ heap = InitialHeap(c, PowerValues(Len(c), shape))
          /\ labels = InitialLabels(c, heap["callerPv"], s)
    /\ kwargs = NoKwargs
    /\ interned = FALSE
    /\ block_width = 0

Init ==
    /\ (InitSmooth \/ InitWake)
    /\ args = [ws |-> heap["callerWs"], pv |-> heap["callerPv"],
               labels |-> labels, efficiency |-> efficiency]
    /\ frame = <<>>
    /\ df = <<>>
    /\ wsRef = "callerWs"
    /\ pvRef = "callerPv"
    /\ nsd = Unbound
    /\ step = 0
    /\ smoothed = <<>>
    /\ error = NoError
    /\ result = <<>>

Raise(type, msg) ==
    /\ pc' = "raised"
    /\ error' = [type |-> type, msg |-> msg]

\* lines 66-76
SelectStandardDeviation ==
    /\ fn = "smooth" /\ pc = "select_sd"
    /\ \/ /\ method = "turbulence_intensity" /\ kwargs.has
          /\ nsd' = [bound |-> TRUE, val |-> kwargs.ti]
          /\ pc' = "step" /\ UNCHANGED error
       \/ /\ method = "turbulence_intensity" /\ ~kwargs.has
          /\ Raise("ValueError",
                   <<"Turbulence intensity must be defined for ",
                     "using 'turbulence_intensity' as ",
                     "standard_deviation_method">>)
          /\ UNCHANGED nsd
       \/ /\ method = "Norgaard"
          /\ pc' = "step" /\ UNCHANGED <<nsd, error>>
       \/ /\ method = "Staffell"
          /\ nsd' = [bound |-> TRUE, val |-> <<1, 5>>]
          /\ pc' = "step" /\ UNCHANGED error
    /\ UNCHANGED <<fn, args, heap, labels, sortsUnion, wsRef, pvRef, method, kwargs, interned,
                   block_width, step, smoothed, efficiency, frame, df, result>>

\* lines 78-80
ComputeStep ==
    /\ fn = "smooth" /\ pc = "step"
    /\ LET ws == heap[wsRef]
       IN  \/ /\ Len(ws) < MinLen
              /\ Raise("IndexError", <<"single positional indexer is out-of-bounds">>)
              /\ UNCHANGED step
           \/ /\ Len(ws) >= MinLen
              /\ step' = ws[Len(ws) - MinLen + 2] - ws[Len(ws) - MinLen + 1]
              /\ pc' = "extend" /\ UNCHANGED error
    /\ UNCHANGED <<fn, args, heap, labels, sortsUnion, wsRef, pvRef, method, kwargs, interned,
                   block_width, nsd, smoothed, efficiency, frame, df, result>>

\* lines 82-87: one pass of the while loop
ExtendTail ==
    /\ fn = "smooth" /\ pc = "extend"
    /\ LoopCondition(heap[wsRef])
    /\ Len(heap[wsRef]) - Len(args.ws) < MaxAppend
    /\ LET a == SeriesAppend(heap, wsRef, "ownWs", Last(heap[wsRef]) + step)
           b == SeriesAppend(a.heap, pvRef, "ownPv", 0)
       IN  /\ heap' = b.heap
           /\ labels' = [labels EXCEPT
                 ![a.ref] = Append(labels[wsRef], Last(labels[wsRef]) + 1),
                 ![b.ref] = Append(labels[pvRef], Last(labels[pvRef]) + 1)]
           /\ wsRef' = a.ref
           /\ pvRef' = b.ref
    /\ UNCHANGED <<fn, pc, args, sortsUnion, method, kwargs, interned, block_width, nsd,
                   step, smoothed, efficiency, frame, df, error, result>>

\* line 82: the loop condition is false
EndExtend ==
    /\ fn = "smooth" /\ pc = "extend"
    /\ ~LoopCondition(heap[wsRef])
    /\ pc' = "convolve"
    /\ UNCHANGED <<fn, args, heap, labels, sortsUnion, wsRef, pvRef, method, kwargs, interned,
                   block_width, nsd, step, smoothed, efficiency, frame, df,
                   error, result>>

\* lines 88-109: one pass of the for loop
ConvolvePoint ==
    /\ fn = "smooth" /\ pc = "convolve"
    /\ Len(smoothed) < Len(heap[wsRef])
    /\ LET v == heap[wsRef][Len(smoothed) + 1]
           isStaffell == method = "Staffell" /\ interned
       IN  \/ /\ ~nsd.bound
              /\ Raise("UnboundLocalError",
                       <<"local variable 'normalized_standard_deviation' ",
                         "referenced before assignment">>)
              /\ UNCHANGED smoothed
           \/ /\ nsd.bound
              /\ smoothed' = Append(smoothed,
                    AppendedValue(SmoothedValue(v, block_width,
                        StandardDeviation(v, isStaffell, nsd.val),
                        heap[wsRef], heap[pvRef])))
              /\ UNCHANGED <<pc, error>>
    /\ UNCHANGED <<fn, args, heap, labels, sortsUnion, wsRef, pvRef, method, kwargs, interned,
                   block_width, nsd, step, efficiency, frame, df, result>>

\* lines 111-125
ReturnSmoothed ==
    /\ fn = "smooth" /\ pc = "convolve"
    /\ Len(smoothed) = Len(heap[wsRef])
    /\ result' = MakeFrame(heap[wsRef], smoothed)
    /\ pc' = "done"
    /\ UNCHANGED <<fn, args, heap, labels, sortsUnion, wsRef, pvRef, method, kwargs, interned,
                   block_width, nsd, step, smoothed, efficiency, frame, df, error>>

\* lines 163-167
MakePowerFrame ==
    /\ fn = "wake" /\ pc = "make_frame"
    /\ frame' = MakeFrame(heap[wsRef], [i \in 1..Len(heap[pvRef]) |-> R(heap[pvRef][i])])
    /\ pc' = "dispatch"
    /\ UNCHANGED <<fn, args, heap, labels, sortsUnion, wsRef, pvRef, method, kwargs, interned,
                   block_width, nsd, step, smoothed, efficiency, df, error, result>>

\* lines 168-172 and 194
ConstantEfficiency ==
    /\ fn = "wake" /\ pc = "dispatch"
    /\ method = "constant_efficiency"
    /\ \/ /\ efficiency.kind # "float"
          /\ Raise("TypeError", TypeMessage("float"))
          /\ UNCHANGED <<frame, result>>
       \/ /\ efficiency.kind = "float"
          /\ frame' = SetPowerColumn(frame, ScaleValues(heap[pvRef], efficiency.value),
                                  labels[pvRef])
          /\ result' = frame'
          /\ pc' = "done" /\ UNCHANGED error
    /\ UNCHANGED <<fn, args, heap, labels, sortsUnion, wsRef, pvRef, method, kwargs, interned,
                   block_width, nsd, step, smoothed, efficiency, df>>

\* lines 173-178
CheckEfficiencyCurve ==
    /\ fn = "wake" /\ pc = "dispatch"
    /\ method = "wind_efficiency_curve"
    /\ \/ /\ efficiency.kind \notin {"dict", "DataFrame"}
          /\ Raise("TypeError", TypeMessage("a dictionary or pd.DataFrame"))
       \/ /\ efficiency.kind \in {"dict", "DataFrame"}
          /\ pc' = "concat" /\ UNCHANGED error
    /\ UNCHANGED <<fn, args, heap, labels, sortsUnion, wsRef, pvRef, method, kwargs, interned,
                   block_width, nsd, step, smoothed, efficiency, frame, df, result>>

\* lines 179-180: a dict has no set_index
AlignFrames ==
    /\ fn = "wake" /\ pc = "concat"
    /\ \/ /\ efficiency.kind = "dict"
          /\ Raise("AttributeError", <<"'dict' object has no attribute 'set_index'">>)
          /\ UNCHANGED df
       \/ /\ efficiency.kind = "DataFrame"
          /\ df' = ConcatFrames(frame, efficiency.curve, sortsUnion)
          /\ pc' = "interpolate" /\ UNCHANGED error
    /\ UNCHANGED <<fn, args, heap, labels, sortsUnion, wsRef, pvRef, method, kwargs, interned,
                   block_width, nsd, step, smoothed, efficiency, frame, result>>

\* lines 181-184
ReducePower ==
    /\ fn = "wake" /\ pc = "interpolate"
    /\ df' = ReducedPower(df)
    /\ pc' = "dropna"
    /\ UNCHANGED <<fn, args, heap, labels, sortsUnion, wsRef, pvRef, method, kwargs, interned,
                   block_width, nsd, step, smoothed, efficiency, frame, error, result>>

\* lines 185-188 and 194
ReturnReduced ==
    /\ fn = "wake" /\ pc = "dropna"
    /\ frame' = DropNa(df)
    /\ result' = frame'
    /\ pc' = "done"
    /\ UNCHANGED <<fn, args, heap, labels, sortsUnion, wsRef, pvRef, method, kwargs, interned,
                   block_width, nsd, step, smoothed, efficiency, df, error>>

\* lines 189-193
UnknownMethod ==
    /\ fn = "wake" /\ pc = "dispatch"
    /\ method \notin {"constant_efficiency", "wind_efficiency_curve"}
    /\ Raise("ValueError", UnknownMethodMessage(method))
    /\ UNCHANGED <<fn, args, heap, labels, sortsUnion, wsRef, pvRef, method, kwargs, interned,
                   block_width, nsd, step, smoothed, efficiency, frame, df, result>>

Next ==
    \/ SelectStandardDeviation
    \/ ComputeStep
    \/ ExtendTail
    \/ EndExtend
    \/ ConvolvePoint
    \/ ReturnSmoothed
    \/ MakePowerFrame
    \/ ConstantEfficiency
    \/ CheckEfficiencyCurve
    \/ AlignFrames
    \/ ReducePower
    \/ ReturnReduced
    \/ UnknownMethod

Spec == Init /\ [][Next]_vars

---------------------------------------------------------------------------
(* Properties *)

Returned == pc = "done"

Raised == pc = "raised"

\* rows of the aligned frame whose efficiency is missing and that stand
\* between two rows with a defined efficiency
GapRows == {p \in 1..Len(df) :
               /\ IsNaN(df[p].efficiency)
               /\ \E q \in 1..Len(df) : q < p /\ ~IsNaN(df[q].efficiency)
               /\ \E q \in 1..Len(df) : q > p /\ ~IsNaN(df[q].efficiency)}

Before(p) == CHOOSE q \in 1..Len(df) :
                /\ q < p /\ ~IsNaN(df[q].efficiency)
                /\ \A t \in 1..Len(df) : (t < p /\ ~IsNaN(df[t].efficiency)) => t <= q

After(p) == CHOOSE q \in 1..Len(df) :
                /\ q > p /\ ~IsNaN(df[q].efficiency)
                /\ \A t \in 1..Len(df) : (t > p /\ ~IsNaN(df[t].efficiency)) => t >= q

\* rows whose efficiency is missing and whose wind speed lies between two
\* wind speeds with a defined efficiency
BetweenRows == {p \in 1..Len(df) :
                   /\ IsNaN(df[p].efficiency)
                   /\ \E q \in Valid(df) : df[q].ws < df[p].ws
                   /\ \E q \in Valid(df) : df[q].ws > df[p].ws}

\* the row with the nearest defined efficiency at a lower wind speed
Lower(p) == CHOOSE q \in Valid(df) :
                /\ df[q].ws < df[p].ws
                /\ \A t \in Valid(df) : df[t].ws < df[p].ws => df[t].ws <= df[q].ws

\* the row with the nearest defined efficiency at a higher wind speed
Upper(p) == CHOOSE q \in Valid(df) :
                /\ df[q].ws > df[p].ws
                /\ \A t \in Valid(df) : df[t].ws > df[p].ws => df[t].ws >= df[q].ws

Interpolated == fn = "wake" /\ pc \in {"dropna", "done"} /\ method = "wind_efficiency_curve"

\* (filled - ea) * (xb - xa) = (eb - ea) * (xp - xa), by wind speed
ByWindSpeed(p) ==
    RMul(RSub(df[p].filled, df[Lower(p)].efficiency),
         R(df[Upper(p)].ws - df[Lower(p)].ws))
    = RMul(RSub(df[Upper(p)].efficiency, df[Lower(p)].efficiency),
           R(df[p].ws - df[Lower(p)].ws))

\* (filled - ea) * (b - a) = (eb - ea) * (p - a), by position in the index
ByRank(p) ==
    RMul(RSub(df[p].filled, df[Before(p)].efficiency), R(After(p) - Before(p)))
    = RMul(RSub(df[After(p)].efficiency, df[Before(p)].efficiency),
           R(p - Before(p)))

\* C1 as stated: the efficiency used at a power-curve wind speed missing from
\* the efficiency curve is interpolated between the neighbouring defined
\* efficiencies by the row's rank in the aligned index.
C1_InterpolatedByRank ==
    Interpolated => \A p \in GapRows : ByRank(p)

\* C1 amended: the efficiency used at a power-curve wind speed that lies
\* between two wind speeds of the efficiency curve is interpolated between the
\* efficiencies of the nearest lower and the nearest higher of them by
\* wind-speed distance, not by rank.  It is left undefined only where pandas
\* does not sort the aligned index and no lower wind speed of the power curve
\* is in the efficiency curve.
C1_InterpolatedByWindSpeed ==
    Interpolated =>
        \A p \in BetweenRows :
            IF IsNaN(df[p].filled)
            THEN /\ ~sortsUnion
                 /\ \A q \in Valid(df) : df[q].ws < df[p].ws => IsNaN(df[q].power)
            ELSE ByWindSpeed(p)

\* power at 3, 4, 5, 9 and efficiency 1/2 at 3 and 1 at 9: the row at 4 has
\* got 1/2 + 1/6 * 1/2 = 7/12 (by rank it would be 1/2 + 1/3 * 1/2 = 2/3)
C1_Witness ==
    /\ Interpolated /\ Returned
    /\ args.ws = <<3, 4, 5, 9>>
    /\ efficiency.curve = << <<3, <<1, 2>> >>, <<9, <<1, 1>> >> >>
    /\ 2 \in GapRows /\ 2 \in BetweenRows
    /\ df[2].ws = 4 /\ df[2].filled = <<7, 12>>
    /\ ~ByRank(2)

EffWs == SetOf(WsOf(efficiency.curve))

MinOf(S) == CHOOSE x \in S : \A y \in S : x <= y

MaxOf(S) == CHOOSE x \in S : \A y \in S : x >= y

\* the power the caller passed for wind speed w
ArgPowerAt(w) == R(args.pv[CHOOSE i \in 1..Len(args.ws) : args.ws[i] = w])

ReturnedReduced == fn = "wake" /\ Returned /\ method = "wind_efficiency_curve"

\* C4 as stated: the returned curve holds exactly the power-curve wind speeds
\* inside [min efficiency wind speed, max efficiency wind speed]; rows before
\* the first and rows after the last defined efficiency are both dropped.
C4_SupportBetweenFirstAndLast ==
    ReturnedReduced =>
        SetOf(WsOf(result)) =
            {w \in SetOf(args.ws) : MinOf(EffWs) <= w /\ w <= MaxOf(EffWs)}

\* the lowest wind speed from which the code defines an efficiency: the first
\* efficiency wind speed where pandas sorts the aligned index, else the first
\* wind speed the two curves share (none: nothing is returned)
SupportStart(w) ==
    IF sortsUnion THEN MinOf(EffWs) <= w
    ELSE \E x \in EffWs \cap SetOf(args.ws) : x <= w

\* C4 amended: the returned curve holds, in ascending order, only power-curve
\* wind speeds; those below the first efficiency wind speed are dropped; those
\* above the last efficiency wind speed are not dropped but scaled by the
\* efficiency of the last one; no wind speed that appears only in the
\* efficiency curve is returned.  Exactly the power-curve wind speeds from the
\* first efficiency wind speed on are returned where pandas sorts the aligned
\* index, and from the first wind speed both curves have where it does not.
C4_SupportFromFirstEfficiency ==
    ReturnedReduced =>
        /\ WsOf(result) = SortedSeq({w \in SetOf(args.ws) : SupportStart(w)})
        /\ \A w \in SetOf(args.ws) : w < MinOf(EffWs) => w \notin SetOf(WsOf(result))
        /\ \A i \in 1..Len(result) :
              result[i][1] > MaxOf(EffWs) =>
                  result[i][2] = RMul(ArgPowerAt(result[i][1]), Last(efficiency.curve)[2])

\* power at 3, 4, 5, 9 and efficiency at 4 and 7: 3 is dropped, 7 is not
\* returned, 9 is returned with the efficiency of 7, whatever the order of
\* the aligned index
C4_Witness ==
    /\ ReturnedReduced
    /\ ~sortsUnion
    /\ args.ws = <<3, 4, 5, 9>> /\ args.pv = <<0, 100, 200, 300>>
    /\ efficiency.curve = << <<4, <<1, 1>> >>, <<7, <<1, 2>> >> >>
    /\ result = << <<4, <<100, 1>> >>, <<5, <<500, 3>> >>, <<9, <<150, 1>> >> >>

\* C7: with 'constant_efficiency' and a float efficiency e the result has the
\* input's length, the input's wind speeds in the input's order, and at every
\* position i the power input power[i] * e.
C7_ConstantEfficiencyScales ==
    (fn = "wake" /\ Returned /\ method = "constant_efficiency") =>
        /\ efficiency.kind = "float"
        /\ Len(result) = Len(args.ws)
        /\ \A i \in 1..Len(result) :
              /\ result[i][1] = args.ws[i]
              /\ result[i][2] = RMul(R(args.pv[i]), efficiency.value)

EfficiencyMatches ==
    \/ method = "constant_efficiency" /\ efficiency.kind = "float"
    \/ method = "wind_efficiency_curve" /\ efficiency.kind \in {"dict", "DataFrame"}

\* C5: with 'constant_efficiency' the call succeeds iff the efficiency is a
\* float, with 'wind_efficiency_curve' iff it is a dictionary or a DataFrame;
\* every mismatching call fails with the TypeError and with no other error.
C5_AcceptsExactlyMatchingShape ==
    (fn = "wake" /\ method \in {"constant_efficiency", "wind_efficiency_curve"}) =>
        /\ Returned => EfficiencyMatches
        /\ Raised => (~EfficiencyMatches /\ error.type = "TypeError")

\* C9: a method other than 'constant_efficiency' and 'wind_efficiency_curve'
\* (None included) fails, whatever the efficiency, with an error whose message
\* names the value and lists the two valid options; no curve is returned.
C9_UnknownMethodRejected ==
    (fn = "wake" /\ method \notin {"constant_efficiency", "wind_efficiency_curve"}) =>
        /\ pc \in {"make_frame", "dispatch", "raised"}
        /\ ~Raised => ENABLED Next
        /\ result = <<>>
        /\ Raised =>
              /\ error.type = "ValueError"
              /\ {method, "constant_efficiency", "wind_efficiency_curve"}
                     \subseteq SetOf(error.msg)

C9_Witness ==
    /\ fn = "wake" /\ Raised
    /\ method = "bogus"
    /\ efficiency.kind = "DataFrame"
    /\ error.msg[2] = "bogus"

---------------------------------------------------------------------------

AfterExtension ==
    /\ fn = "smooth"
    /\ \/ pc \in {"convolve", "done"}
       \/ Raised /\ error.type = "UnboundLocalError"

\* C2 as stated: for a curve of at least 6 samples with tail spacing step > 0
\* the final wind speed after the extension loop is >= 40 and < 40 + step,
\* also when the last input wind speed is already at or above 40.
C2_FinalSpeedWithinOneStep ==
    (AfterExtension /\ step > 0) =>
        /\ Last(heap[wsRef]) >= Forty
        /\ Last(heap[wsRef]) < Forty + step

\* C2 amended: for a curve of at least 6 samples with tail spacing step > 0
\* the final wind speed after the extension loop is >= 40; it is < 40 + step
\* whenever the last input wind speed is < 40 + step (so whenever a sample is
\* appended); a curve whose last input wind speed is already >= 40 is not
\* extended and keeps its own last wind speed, which may be >= 40 + step.  The
\* returned curve ends with that wind speed.
C2_FinalSpeedAtLeastForty ==
    (AfterExtension /\ step > 0) =>
        /\ Len(args.ws) >= MinLen
        /\ Last(heap[wsRef]) >= Forty
        /\ Last(args.ws) < Forty + step => Last(heap[wsRef]) < Forty + step
        /\ Last(args.ws) >= Forty => heap[wsRef] = args.ws
        /\ Len(heap[wsRef]) > Len(args.ws) => Last(heap[wsRef]) < Forty + step
        /\ Returned => Last(result)[1] = Last(heap[wsRef])

\* 0, 6, 9, 15, 21, 27, 33 (step 3) is returned extended by 36, 39, 42
C2_Witness ==
    /\ fn = "smooth" /\ Returned
    /\ args.ws = <<0, 6, 9, 15, 21, 27, 33>> /\ step = 3
    /\ WsOf(result) = args.ws \o <<36, 39, 42>>

\* C3: with a last wind speed below 40 and a tail step <= 0 the call ends with
\* a configuration error and the extension loop does not run: no sample is
\* ever appended with a step that is not positive.
C3_NonPositiveStepRaises ==
    (fn = "smooth" /\ Len(heap[wsRef]) > Len(args.ws)) => step > 0

\* C6: with 'Norgaard' the call either goes on with a defined normalized
\* standard deviation or has failed with a configuration error raised at the
\* selection, before any sample is appended or smoothed.
C6_NorgaardRejectedAtOnce ==
    (fn = "smooth" /\ method = "Norgaard") =>
        \/ pc = "select_sd"
        \/ nsd.bound
        \/ /\ Raised /\ error.type = "ValueError"
           /\ heap[wsRef] = args.ws /\ smoothed = <<>>

Supported ==
    \/ method = "Staffell"
    \/ method = "turbulence_intensity" /\ kwargs.has

\* the standard deviation line 94 computes at point i of the extended curve
StdAt(i) ==
    StandardDeviation(heap[wsRef][i], method = "Staffell" /\ interned, nsd.val)

\* C8: for a curve (of at least 6 samples) whose first wind speed is 0 and a
\* supported method the call never raises; where the standard deviation at a
\* point is 0 the smoothed power is 0; every point of the extended curve is
\* computed and no NaN is in the smoothed values or in the returned curve.
C8_ZeroSpeedNeverRaises ==
    (fn = "smooth" /\ Len(args.ws) >= MinLen /\ args.ws[1] = 0 /\ Supported) =>
        /\ ~Raised
        /\ \A i \in 1..Len(smoothed) :
              /\ smoothed[i] # "nan"
              /\ StdAt(i) = R(0) => smoothed[i] = "zero"
        /\ Returned =>
              /\ Len(result) = Len(heap[wsRef])
              /\ \A i \in 1..Len(result) :
                    result[i] = <<heap[wsRef][i], smoothed[i]>>

\* turbulence intensity 0.1: the point at wind speed 0 has standard deviation
\* 0 and power 0, later points have a positive smoothed power
C8_Witness ==
    /\ fn = "smooth" /\ Returned
    /\ method = "turbulence_intensity" /\ kwargs.ti = <<1, 10>>
    /\ args.ws[1] = 0
    /\ StdAt(1) = R(0) /\ result[1] = <<0, "zero">>
    /\ \E i \in 2..Len(result) : result[i][2] = "pos"

\* C10: neither function changes the caller's wind-speed series, power-value
\* series or efficiency: in every state of a call, returned or raised
\* included, they hold what the caller passed.
C10_CallerDataUnchanged ==
    /\ heap["callerWs"] = args.ws
    /\ heap["callerPv"] = args.pv
    /\ labels["callerWs"] = args.labels["callerWs"]
    /\ labels["callerPv"] = args.labels["callerPv"]
    /\ efficiency = args.efficiency

\* a returned smoothing that appended to both series
C10_Witness ==
    /\ fn = "smooth" /\ Returned
    /\ wsRef = "ownWs" /\ pvRef = "ownPv"
    /\ Len(heap["ownWs"]) > Len(heap["callerWs"])
    /\ Len(heap["ownPv"]) > Len(heap["callerPv"])

====
